---- MODULE Spec2Model ----
(***************************************************************************)
(* Model of utils/changelog/changelog.py: the worker pool that fetches     *)
(* pull requests through the on-disk cache (Worker, get_pull_cached,       *)
(* get_descriptions) and the description classifier                        *)
(* (generate_description).                                                 *)
(*                                                                         *)
(* Text is modelled as sequences of one-character strings, so that the     *)
(* regular expressions, split/strip/join and the similarity ratio of the   *)
(* code are computed, not assumed.                                         *)
(***************************************************************************)
EXTENDS Integers, Sequences, FiniteSets, TLC

(***************************************************************************)
(* Characters and Python string primitives                                 *)
(***************************************************************************)

\* Characters matched by \s and removed by str.strip() (ASCII part).
Whitespace == {" ", "\t", "\n", "\r", "\f"}

UpperLetters == <<"A","B","C","D","E","F","G","H","I","J","K","L","M",
                  "N","O","P","Q","R","S","T","U","V","W","X","Y","Z">>
LowerLetters == <<"a","b","c","d","e","f","g","h","i","j","k","l","m",
                  "n","o","p","q","r","s","t","u","v","w","x","y","z">>

Digits == <<"0","1","2","3","4","5","6","7","8","9">>

\* str.lower() on one character; also the folding done by (?i).
LowerChar(c) ==
    IF \E k \in 1..26 : UpperLetters[k] = c
    THEN LowerLetters[CHOOSE k \in 1..26 : UpperLetters[k] = c]
    ELSE c

\* str.lower()
Lower(s) == <<>> \o [k \in 1..Len(s) |-> LowerChar(s[k])]

\* s[i:] with a 1-based index
From(s, i) == SubSeq(s, i, Len(s))

\* The first index >= i of s whose character is not in class (Len(s)+1 when
\* there is none): the end of a greedy match of [class]* that starts at i.
RECURSIVE SkipClass(_, _, _)
SkipClass(s, i, class) ==
    IF i <= Len(s) /\ s[i] \in class THEN SkipClass(s, i + 1, class) ELSE i

\* TRUE when the literal lit (lower case) matches s at index i under (?i).
LitAt(s, i, lit) ==
    /\ i + Len(lit) - 1 <= Len(s)
    /\ \A k \in 1..Len(lit) : LowerChar(s[i + k - 1]) = lit[k]

\* str.strip()
RECURSIVE LastNonSpace(_, _)
LastNonSpace(s, j) ==
    IF j >= 1 /\ s[j] \in Whitespace THEN LastNonSpace(s, j - 1) ELSE j

Strip(s) ==
    LET a == SkipClass(s, 1, Whitespace)
        b == LastNonSpace(s, Len(s))
    IN  IF a > b THEN <<>> ELSE SubSeq(s, a, b)

\* The indices of s, in ascending order.
Indices(s) == [i \in 1..Len(s) |-> i]

\* str.split(sep) for a one-character separator: always at least one part.
\* Part k lies between the (k-1)-th and the k-th separator, the start and
\* the end of s standing for the 0-th and the last one.
Split(s, sep) ==
    LET IsSep(i) == s[i] = sep
        at == SelectSeq(Indices(s), IsSep)
        cut(k) == IF k = 0 THEN 0
                  ELSE IF k > Len(at) THEN Len(s) + 1
                  ELSE at[k]
    IN  <<>> \o [k \in 1..(Len(at) + 1) |->
                    SubSeq(s, cut(k - 1) + 1, cut(k) - 1)]

\* sep.join(parts)
RECURSIVE Join(_, _)
Join(parts, sep) ==
    IF parts = <<>> THEN <<>>
    ELSE IF Len(parts) = 1 THEN parts[1]
    ELSE parts[1] \o sep \o Join(Tail(parts), sep)

\* re.sub(r"\s+", " ", ln): every character outside a run of whitespace is
\* kept, and the first character of each run is kept as one space.
CollapseSpaces(s) ==
    LET Kept(i) == \/ s[i] \notin Whitespace
                   \/ i = 1
                   \/ s[i - 1] \notin Whitespace
        kept == SelectSeq(Indices(s), Kept)
    IN  <<>> \o [k \in 1..Len(kept) |->
                    IF s[kept[k]] \in Whitespace THEN " " ELSE s[kept[k]]]

\* str(n) for n >= 0
RECURSIVE IntToStr(_)
IntToStr(n) ==
    IF n < 10 THEN <<Digits[n + 1]>>
    ELSE IntToStr(n \div 10) \o <<Digits[(n % 10) + 1]>>

\* int(s) for a string of ASCII digits; -1 stands for the ValueError that
\* int() raises on anything else.
DigitValue(c) == (CHOOSE k \in 1..10 : Digits[k] = c) - 1

RECURSIVE DigitsToInt(_, _)
DigitsToInt(s, acc) ==
    IF s = <<>> THEN acc
    ELSE DigitsToInt(Tail(s), 10 * acc + DigitValue(Head(s)))

StrToInt(s) ==
    LET t == Strip(s)
    IN  IF t # <<>> /\ \A k \in 1..Len(t) : \E d \in 1..10 : Digits[d] = t[k]
        THEN DigitsToInt(t, 0)
        ELSE -1

(***************************************************************************)
(* fuzzywuzzy.fuzz.ratio, as used for category normalization               *)
(***************************************************************************)

Max(a, b) == IF a >= b THEN a ELSE b

\* The largest element of a set of naturals, 0 for the empty set.
MaxOf(S) == IF S = {} THEN 0 ELSE CHOOSE x \in S : \A y \in S : x >= y

\* One row of the longest-common-subsequence table.  prev[j] is the value
\* for the prefix b[1..j-1] before the character c is added, the result
\* the same after it: c stays unmatched, or is matched with some b[k].
LcsRow(c, b, prev) ==
    <<>> \o [j \in 1..(Len(b) + 1) |->
                Max(prev[j],
                    MaxOf({prev[k] + 1 : k \in {k \in 1..(j - 1) : b[k] = c}}))]

\* The row of the table after the characters a[lo..hi] are added to the
\* row prev; the range is halved, which keeps the nesting of the evaluation
\* logarithmic in the length of a.
RECURSIVE LcsRows(_, _, _, _, _)
LcsRows(a, b, lo, hi, prev) ==
    IF lo > hi THEN prev
    ELSE IF lo = hi THEN LcsRow(a[lo], b, prev)
    ELSE LET mid == (lo + hi) \div 2
             row == LcsRows(a, b, lo, mid, prev)
         IN  IF Len(row) = Len(b) + 1
             THEN LcsRows(a, b, mid + 1, hi, row)
             ELSE row

\* Number of matching characters M of the sequence matcher: the length of
\* a longest common subsequence (the table is built over the shorter string).
Lcs(s1, s2) ==
    LET a == IF Len(s1) >= Len(s2) THEN s1 ELSE s2
        b == IF Len(s1) >= Len(s2) THEN s2 ELSE s1
    IN  LcsRows(a, b, 1, Len(a), [j \in 1..(Len(b) + 1) |-> 0])[Len(b) + 1]

\* int(round(x)) for x = num / den, Python's round-half-to-even.
RoundDiv(num, den) ==
    LET q == num \div den
        r == num % den
    IN  IF 2 * r < den THEN q
        ELSE IF 2 * r > den THEN q + 1
        ELSE IF q % 2 = 0 THEN q ELSE q + 1

\* ratio(s1, s2): 100 for equal strings, 0 when one is empty, otherwise
\* round(100 * 2M / (len(s1) + len(s2))).
ratio(s1, s2) ==
    IF s1 = s2 THEN 100
    ELSE IF s1 = <<>> \/ s2 = <<>> THEN 0
    ELSE RoundDiv(200 * Lcs(s1, s2), Len(s1) + Len(s2))

(***************************************************************************)
(* generate_description: the regular expressions                           *)
(***************************************************************************)

\* [#>*_ ]
HeaderNoise == {"#", ">", "*", "_", " "}

\* (?i)^[#>*_ ]*change\s*log\s*category
IsCategoryHeader(ln) ==
    LET a == SkipClass(ln, 1, HeaderNoise)
        b == SkipClass(ln, a + 6, Whitespace)
        c == SkipClass(ln, b + 3, Whitespace)
    IN  /\ LitAt(ln, a, <<"c","h","a","n","g","e">>)
        /\ LitAt(ln, b, <<"l","o","g">>)
        /\ LitAt(ln, c, <<"c","a","t","e","g","o","r","y">>)

\* (?i)^[#>*_ ]*(short\s*description|change\s*log\s*entry)
IsEntryHeader(ln) ==
    LET a == SkipClass(ln, 1, HeaderNoise)
        s == SkipClass(ln, a + 5, Whitespace)
        b == SkipClass(ln, a + 6, Whitespace)
        c == SkipClass(ln, b + 3, Whitespace)
    IN  \/ /\ LitAt(ln, a, <<"s","h","o","r","t">>)
           /\ LitAt(ln, s, <<"d","e","s","c","r","i","p","t","i","o","n">>)
        \/ /\ LitAt(ln, a, <<"c","h","a","n","g","e">>)
           /\ LitAt(ln, b, <<"l","o","g">>)
           /\ LitAt(ln, c, <<"e","n","t","r","y">>)

\* re.sub(r"^[-*\s]*", "", ln)
StripListMarker(ln) == From(ln, SkipClass(ln, 1, {"-", "*"} \cup Whitespace))

\* (non|in|not|un)[-\s]*significant at the start of s, for one prefix
InsignificantWith(s, prefix) ==
    /\ LitAt(s, 1, prefix)
    /\ LitAt(s, SkipClass(s, Len(prefix) + 1, {"-"} \cup Whitespace),
             <<"s","i","g","n","i","f","i","c","a","n","t">>)

\* Faulty variant of IsNotForChangelog: no category matches.
NeverNotForChangelog(s) == FALSE

\* (?i)((non|in|not|un)[-\s]*significant)|(not[ ]*for[ ]*changelog)
IsNotForChangelog(s) ==
    LET f == SkipClass(s, 4, {" "})
        g == SkipClass(s, f + 3, {" "})
    IN  \/ InsignificantWith(s, <<"n","o","n">>)
        \/ InsignificantWith(s, <<"i","n">>)
        \/ InsignificantWith(s, <<"n","o","t">>)
        \/ InsignificantWith(s, <<"u","n">>)
        \/ /\ LitAt(s, 1, <<"n","o","t">>)
           /\ LitAt(s, f, <<"f","o","r">>)
           /\ LitAt(s, g, <<"c","h","a","n","g","e","l","o","g">>)

\* (?i)doc
IsDocumentation(s) == LitAt(s, 1, <<"d","o","c">>)

(***************************************************************************)
(* generate_description: constants                                         *)
(***************************************************************************)

\* categories_preferred_order
categories_preferred_order == <<
    \* Backward Incompatible Change
    <<"B","a","c","k","w","a","r","d"," ","I","n","c","o","m","p","a","t","i","b","l","e"," ","C","h","a","n","g","e">>,
    \* New Feature
    <<"N","e","w"," ","F","e","a","t","u","r","e">>,
    \* Performance Improvement
    <<"P","e","r","f","o","r","m","a","n","c","e"," ","I","m","p","r","o","v","e","m","e","n","t">>,
    \* Improvement
    <<"I","m","p","r","o","v","e","m","e","n","t">>,
    \* Bug Fix
    <<"B","u","g"," ","F","i","x">>,
    \* Build/Testing/Packaging Improvement
    <<"B","u","i","l","d","/","T","e","s","t","i","n","g","/","P","a","c","k","a","g","i","n","g"," ","I","m","p","r","o","v","e","m","e","n","t">>,
    \* Other
    <<"O","t","h","e","r">> >>

\* "NO CL CATEGORY"
NoClCategory == <<"N","O"," ","C","L"," ","C","A","T","E","G","O","R","Y">>

\* "NOT FOR CHANGELOG / INSIGNIFICANT"
NotForChangelog ==
    <<"N","O","T"," ","F","O","R"," ","C","H","A","N","G","E","L","O","G"," ","/"," ","I","N","S","I","G","N","I","F","I","C","A","N","T">>

\* "NO CL ENTRY"
NoClEntry == <<"N","O"," ","C","L"," ","E","N","T","R","Y">>

\* "NO CL ENTRY:  '" (two spaces, as in the source)
NoClEntryPrefix == <<"N","O"," ","C","L"," ","E","N","T","R","Y",":"," "," ","'">>

\* "Backported in #"
BackportedIn == <<"B","a","c","k","p","o","r","t","e","d"," ","i","n"," ","#">>

\* "backport/"
BackportPrefix == <<"b","a","c","k","p","o","r","t","/">>

(***************************************************************************)
(* generate_description: the line scan                                     *)
(***************************************************************************)

\* lines = [re.sub(r"\s+", " ", x.strip()) for x in description.split("\n")],
\* and [] for an empty or missing description.
BodyLines(description) ==
    IF description = <<>> THEN <<>>
    ELSE LET raw == Split(description, "\n")
         IN  [k \in 1..Len(raw) |-> CollapseSpaces(Strip(raw[k]))]

\* Faulty variant of EntryEnd: the entry does not stop at an empty line.
EntryEndOfBody(lines, i) == Len(lines) + 1

\* The end (exclusive) of the run of non-empty lines that starts at i.
RECURSIVE EntryEnd(_, _)
EntryEnd(lines, i) ==
    IF i <= Len(lines) /\ lines[i] # <<>> THEN EntryEnd(lines, i + 1) ELSE i

\* Faulty variant of ScanLines: a header that was seen before assigns
\* nothing.
RECURSIVE ScanLinesFirst(_, _, _, _)
ScanLinesFirst(lines, i, category, entry) ==
    IF i > Len(lines) THEN [category |-> category, entry |-> entry]
    ELSE IF IsCategoryHeader(lines[i]) THEN
        LET j == i + 1
            k == IF j <= Len(lines) /\ lines[j] = <<>> THEN j + 1 ELSE j
        IN  IF k > Len(lines)
            THEN [category |-> category, entry |-> entry]
            ELSE ScanLinesFirst(lines, k + 1,
                     IF category = <<>> THEN StripListMarker(lines[k])
                     ELSE category, entry)
    ELSE IF IsEntryHeader(lines[i]) THEN
        LET j == i + 1
            k == IF j <= Len(lines) /\ lines[j] = <<>> THEN j + 1 ELSE j
            e == EntryEnd(lines, k)
        IN  ScanLinesFirst(lines, e, category,
                IF entry = <<>> THEN Join(SubSeq(lines, k, e - 1), <<" ">>)
                ELSE entry)
    ELSE ScanLinesFirst(lines, i + 1, category, entry)

\* The while loop over lines; i is the 1-based position of the scan.
RECURSIVE ScanLines(_, _, _, _)
ScanLines(lines, i, category, entry) ==
    IF i > Len(lines) THEN [category |-> category, entry |-> entry]
    ELSE IF IsCategoryHeader(lines[i]) THEN
        LET j == i + 1
            k == IF j <= Len(lines) /\ lines[j] = <<>> THEN j + 1 ELSE j
        IN  IF k > Len(lines)
            THEN [category |-> category, entry |-> entry]
            ELSE ScanLines(lines, k + 1, StripListMarker(lines[k]), entry)
    ELSE IF IsEntryHeader(lines[i]) THEN
        LET j == i + 1
            k == IF j <= Len(lines) /\ lines[j] = <<>> THEN j + 1 ELSE j
            e == EntryEnd(lines, k)
        IN  ScanLines(lines, e, category,
                      Join(SubSeq(lines, k, e - 1), <<" ">>))
    ELSE ScanLines(lines, i + 1, category, entry)

\* The (category, entry) pair extracted from a description.
ParseDescription(description) ==
    ScanLines(BodyLines(description), 1, <<>>, <<>>)

(***************************************************************************)
(* generate_description: post-processing                                   *)
(***************************************************************************)

\* Description(number, user, html_url, entry, category); user and html_url
\* are copied from the pull request and left out.
Description(number, entry, category) ==
    [number |-> number, entry |-> entry, category |-> category]

\* Faulty variant of NormalizeFrom: the category is never replaced.
NormalizeNone(category, k) == category

\* for c in categories_preferred_order: if ratio(...) >= 90: category = c; break
\* (the loop from position k on: the first similar name wins)
NormalizeFrom(category, k) ==
    LET similar == {j \in k..Len(categories_preferred_order) :
                       ratio(Lower(category),
                             Lower(categories_preferred_order[j])) >= 90}
    IN  IF similar = {} THEN category
        ELSE categories_preferred_order[
                 CHOOSE j \in similar : \A i \in similar : j <= i]

\* Faulty variant of NormalizeCategory: the lowered string of the comparison
\* is returned.
LowerCategory(category) == Lower(category)

NormalizeCategory(category) == NormalizeFrom(category, 1)

\* Faulty variant of WithPeriod: no period is appended.
WithoutPeriod(entry) == Strip(entry)

\* entry = entry.strip(); if entry[-1] != ".": entry += "."
WithPeriod(entry) ==
    LET e == Strip(entry)
    IN  IF e[Len(e)] # "." THEN Append(e, ".") ELSE e

\* Lines 258-335 of generate_description: item is the pull request that is
\* classified (the original one for a resolved backport), backport_number
\* the number of the pull request the call was made for.  The result is
\* <<>> for None and <<d>> for a Description d.
Describe(item, backport_number) ==
    LET parsed   == ParseDescription(item.body)
        category == IF parsed.category = <<>> THEN NoClCategory
                    ELSE parsed.category
        entry1   == IF backport_number # item.number
                    THEN BackportedIn \o IntToStr(backport_number)
                         \o <<":", " ">> \o parsed.entry
                    ELSE parsed.entry
        missing  == entry1 = <<>>
        category2 == IF missing THEN NoClEntry ELSE category
        entry2   == IF missing
                    THEN NoClEntryPrefix \o item.title \o <<"'">>
                    ELSE entry1
    IN  IF IsNotForChangelog(category)
        THEN <<Description(item.number, item.title, NotForChangelog)>>
        ELSE IF IsDocumentation(category) THEN <<>>
        ELSE <<Description(item.number, WithPeriod(entry2),
                           NormalizeCategory(category2))>>

(***************************************************************************)
(* Description.formatted_entry: the substitution of issue links            *)
(***************************************************************************)

\* "https://github.com/ClickHouse/ClickHouse/issues/"
IssuesUrl ==
    <<"h","t","t","p","s",":","/","/","g","i","t","h","u","b",".","c","o","m","/","C","l","i","c","k","H","o","u","s","e","/","C","l","i","c","k","H","o","u","s","e","/","i","s","s","u","e","s","/">>

DigitChars == {Digits[d] : d \in 1..10}

\* TRUE when the text lit stands in s at index i.
TextAt(s, i, lit) ==
    /\ i + Len(lit) - 1 <= Len(s)
    /\ s[i] = lit[1]
    /\ SubSeq(s, i, i + Len(lit) - 1) = lit

\* The pattern ([^guard])lit([0-9]{4,}) tried at index p of s: the index
\* after the match, 0 when it does not match there.
MatchEnd(s, p, guard, lit) ==
    IF s[p] # guard /\ TextAt(s, p + 1, lit)
    THEN LET d == p + 1 + Len(lit)
             e == SkipClass(s, d, DigitChars)
         IN  IF e - d >= 4 THEN e ELSE 0
    ELSE 0

\* "[#<number>](https://github.com/ClickHouse/ClickHouse/issues/<number>)"
MarkdownLink(number) ==
    <<"[", "#">> \o number \o <<"]", "(">> \o IssuesUrl \o number \o <<")">>

\* re.sub(r"([^guard])lit([0-9]{4,})", r"\1[#\2](<url>\2)", s) from index
\* i on: the leftmost match is replaced and the search goes on after it.
RECURSIVE SubFrom(_, _, _, _)
SubFrom(s, i, guard, lit) ==
    LET starts == {p \in i..Len(s) : MatchEnd(s, p, guard, lit) > 0}
    IN  IF starts = {} THEN From(s, i)
        ELSE LET p == CHOOSE q \in starts : \A r \in starts : q <= r
                 e == MatchEnd(s, p, guard, lit)
             IN  SubSeq(s, i, p)
                 \o MarkdownLink(SubSeq(s, p + 1 + Len(lit), e - 1))
                 \o SubFrom(s, e, guard, lit)

\* Lines 60-64: issue numbers without a markdown link
LinkNumbers(entry) == SubFrom(entry, 1, "[", <<"#">>)

\* Lines 66-70: issue URLs without a markdown link
LinkUrls(entry) == SubFrom(entry, 1, "(", IssuesUrl)

\* Lines 60-70: entry after the two substitutions
LinkIssues(entry) == LinkUrls(LinkNumbers(entry))

(***************************************************************************)
(* Inputs of the classifier: descriptions made of a category block and an  *)
(* entry block                                                             *)
(***************************************************************************)

\* Largest number of lines that follow an entry header in a generated body.
MaxEntryLines == 2

\* "Changelog category:"
CatHeaderPlain == <<"C","h","a","n","g","e","l","o","g"," ","c","a","t","e","g","o","r","y",":">>
\* "### Changelog category (leave one):"
CatHeaderTemplate ==
    <<"#","#","#"," ","C","h","a","n","g","e","l","o","g"," ","c","a","t","e","g","o","r","y"," ","(","l","e","a","v","e"," ","o","n","e",")",":">>
\* "Changelog category: Bug Fix"
CatHeaderInline ==
    <<"C","h","a","n","g","e","l","o","g"," ","c","a","t","e","g","o","r","y",":"," ","B","u","g"," ","F","i","x">>
CatHeaders == {CatHeaderPlain, CatHeaderTemplate, CatHeaderInline}

\* "Changelog entry:"
EntryHeaderPlain == <<"C","h","a","n","g","e","l","o","g"," ","e","n","t","r","y",":">>
\* "Short description"
EntryHeaderShort == <<"S","h","o","r","t"," ","d","e","s","c","r","i","p","t","i","o","n">>
\* "Changelog entry: Fixed a crash"
EntryHeaderInline ==
    <<"C","h","a","n","g","e","l","o","g"," ","e","n","t","r","y",":"," ","F","i","x","e","d"," ","a"," ","c","r","a","s","h">>
EntryHeaders == {EntryHeaderPlain, EntryHeaderShort, EntryHeaderInline}

\* "Bug Fix"
LineBugFix == <<"B","u","g"," ","F","i","x">>
\* "- improvement"
LineImprovement == <<"-"," ","i","m","p","r","o","v","e","m","e","n","t">>
CategoryLines == {LineBugFix, LineImprovement}

\* "Fixed a crash"
LineFixedCrash == <<"F","i","x","e","d"," ","a"," ","c","r","a","s","h">>
\* "  Fix   X. "
LineFixX == <<" "," ","F","i","x"," "," "," ","X","."," ">>
EntryLines == {LineFixedCrash, LineFixX, CatHeaderPlain}

\* Titles of the classified pull requests: "Crash fix"
Titles == {<<"C","r","a","s","h"," ","f","i","x">>}

\* Sequences over S of length lo..hi
SeqsOf(S, lo, hi) == UNION {[1..n -> S] : n \in lo..hi}

\* A layout describes a body: each block is its header, an optional blank
\* line and its lines; sep tells whether a blank line separates the blocks
\* and first which block comes first.
Layouts ==
    [chdr : CatHeaders, cblank : BOOLEAN, clines : SeqsOf(CategoryLines, 0, 1),
     ehdr : EntryHeaders, eblank : BOOLEAN,
     elines : SeqsOf(EntryLines, 0, MaxEntryLines),
     sep : BOOLEAN, first : {"category", "entry"}]

Blank(b) == IF b THEN << <<>> >> ELSE <<>>

CategoryBlock(l) == <<l.chdr>> \o Blank(l.cblank) \o l.clines

EntryBlock(l) == <<l.ehdr>> \o Blank(l.eblank) \o l.elines

\* The body text of a layout: its lines joined by newlines.
Render(l) ==
    Join(IF l.first = "category"
         THEN CategoryBlock(l) \o Blank(l.sep) \o EntryBlock(l)
         ELSE EntryBlock(l) \o Blank(l.sep) \o CategoryBlock(l),
         <<"\n">>)

\* The same blocks in the other order.
Swapped(l) ==
    [l EXCEPT !.first = IF l.first = "category" THEN "entry" ELSE "category"]

\* The body "Changelog category: Bug Fix\n\nChangelog entry: Fixed a crash":
\* the values stand on the header lines.
InlineLayout ==
    [chdr |-> CatHeaderInline, cblank |-> FALSE, clines |-> <<>>,
     ehdr |-> EntryHeaderInline, eblank |-> FALSE, elines |-> <<>>,
     sep |-> TRUE, first |-> "category"]

\* The body "Changelog category:\nBug Fix\n\nChangelog entry:\nFixed a crash":
\* the values stand on the lines after the headers.
NextLineLayout ==
    [chdr |-> CatHeaderPlain, cblank |-> FALSE, clines |-> <<LineBugFix>>,
     ehdr |-> EntryHeaderPlain, eblank |-> FALSE,
     elines |-> <<LineFixedCrash>>,
     sep |-> TRUE, first |-> "category"]

(***************************************************************************)
(* The tracker, the local repository and the clock                         *)
(***************************************************************************)

\* Largest number of issues in the list given to get_descriptions.
MaxIssues == 2

\* Largest value of --jobs.
MaxJobs == 2

\* Largest number of rate-limit errors the tracker raises in one run.
MaxRateLimits == 1

\* sleep_on_rate_limit(time = 20): seconds slept after a rate-limit error
BACKOFF == 20

\* timedelta(hours=-1), in seconds
HOUR == 3600

\* The time at which the run starts, and the time at which the pull
\* requests of the tracker were last updated (issue.updated_at).
StartTime == 2000
UpdatedAt == 1000

\* "Documentation"
LineDocumentation == <<"D","o","c","u","m","e","n","t","a","t","i","o","n">>

\* "feature"
RefFeature == <<"f","e","a","t","u","r","e">>
\* "backport/23.8/2"
RefBackportOf2 == <<"b","a","c","k","p","o","r","t","/","2","3",".","8","/","2">>

DocLayout == [NextLineLayout EXCEPT !.clines = <<LineDocumentation>>]

OwnLayout ==
    [NextLineLayout EXCEPT !.clines = <<LineImprovement>>,
                           !.elines = <<LineFixX>>]

PullRequest(number, ref, sha, l) ==
    [number |-> number, title |-> <<"P", "R">> \o IntToStr(number),
     body |-> Render(l), head_ref |-> ref, merge_commit_sha |-> sha,
     updated_at |-> UpdatedAt]

\* The pull requests of the tracker (what repo.get_pull returns):
\*   1  merged with a commit that is not in the local repository
\*   2  an ordinary bug fix, merged in the range
\*   3  the backport of 2 (branch backport/23.8/2), merged in the range
\*   4  a documentation change, merged in the range
\*   5  merged with a local commit outside the range
Remote ==
    [n \in 1..5 |->
        CASE n = 1 -> PullRequest(1, RefFeature, "c1", NextLineLayout)
          [] n = 2 -> PullRequest(2, RefFeature, "c2", NextLineLayout)
          [] n = 3 -> PullRequest(3, RefBackportOf2, "c3", OwnLayout)
          [] n = 4 -> PullRequest(4, RefFeature, "c4", DocLayout)
          [] n = 5 -> PullRequest(5, RefFeature, "c5", NextLineLayout)]

PRNumbers == DOMAIN Remote

\* Commits that `git rev-parse` resolves in the local repository.
LocalCommits == {"c2", "c3", "c4", "c5"}

\* SHA_IN_CHANGELOG: the commits of FROM_REF..TO_REF
SHA_IN_CHANGELOG == {"c2", "c3", "c4"}

\* item.head.ref.startswith("backport/")
IsBackportRef(ref) ==
    /\ Len(ref) >= Len(BackportPrefix)
    /\ SubSeq(ref, 1, Len(BackportPrefix)) = BackportPrefix

\* Faulty variant of BackportTarget: the number of parts is not tested.
BackportTargetAnyParts(ref) ==
    IF IsBackportRef(ref)
    THEN LET branch_parts == Split(ref, "/")
         IN  StrToInt(branch_parts[Len(branch_parts)])
    ELSE 0

\* Lines 245-249: the number of the pull request that generate_description
\* fetches for a pull request with this branch; 0 when it fetches none (no
\* backport branch, or not three parts) and -1 when int() raises.
BackportTarget(ref) ==
    IF IsBackportRef(ref)
    THEN LET branch_parts == Split(ref, "/")
         IN  IF Len(branch_parts) = 3
             THEN StrToInt(branch_parts[Len(branch_parts)])
             ELSE 0
    ELSE 0

\* BackportTarget and Describe for the pull requests of the tracker,
\* computed once.
TargetOf == [n \in PRNumbers |-> BackportTarget(Remote[n].head_ref)]

Described == [n \in PRNumbers, b \in PRNumbers |-> Describe(Remote[n], b)]

\* Ascending lists of at most MaxIssues distinct pull request numbers.
IssueLists ==
    {l \in SeqsOf(PRNumbers, 0, MaxIssues) :
        \A i \in 1..(Len(l) - 1) : l[i] < l[i + 1]}

\* A cache file: exists is p.isfile, mtime is p.getmtime, content is "full"
\* for a complete pickle and "partial" between open(.., "wb") and the end of
\* the dump.
NoFile == [exists |-> FALSE, mtime |-> 0, content |-> "none"]

File(mtime, content) == [exists |-> TRUE, mtime |-> mtime, content |-> content]

\* gh_cache as an earlier run may have left it: nothing, or the pickle of
\* pull request 2 written before, at or after its last update.
InitialCaches ==
    {[n \in PRNumbers |-> NoFile]} \cup
    {[n \in PRNumbers |-> IF n = 2 THEN File(t, "full") ELSE NoFile] :
        t \in {UpdatedAt - 1, UpdatedAt, UpdatedAt + 1}}

(***************************************************************************)
(* State                                                                   *)
(***************************************************************************)

VARIABLES
    issues,        \* the issues argument of get_descriptions (numbers)
    jobs,          \* the jobs argument of get_descriptions
    queue,         \* the shared Queue of issues
    pc,            \* worker -> position in Worker.run / get_pull_cached
    issue,         \* worker -> number of the issue taken from the queue
    taken,         \* history: number -> how often the issue left the queue
    call,          \* worker -> arguments of its get_pull_cached call
    api_pr,        \* worker -> number of the pull request of its issue
    response,      \* worker -> its list of Descriptions
    cache,         \* number -> cache file gh_cache/<number>.pickle
    clock,         \* datetime.now(), in seconds
    rate_limits,   \* rate-limit errors raised so far
    faulted,       \* TRUE once repo.get_pull raised another error
    source,        \* worker -> where its last get_pull_cached answer came from
    mainpc,        \* get_descriptions: "join" or "returned"
    descriptions,  \* the dictionary returned by get_descriptions
    layout,     \* classifier: the layout of the description being classified
    c_item,     \* classifier: the pull request passed to generate_description
    c_orig,     \* classifier: the pull request the tracker holds for a backport
    c_used,     \* classifier: item after the backport resolution
    c_fetch,    \* classifier: "none", or how get_pull_cached ended ("ok", "raised")
    c_pc,       \* classifier: "input" before the call, "done" after it
    c_parsed,   \* classifier: category and entry after the line scan
    c_desc,     \* classifier: the returned Description (<<>> for None)
    f_entry,    \* formatted_entry: the entry of the Description (self.entry)
    f_pc,       \* formatted_entry: "input", "once", "twice"
    f_once,     \* formatted_entry: entry after the two substitutions
    f_twice     \* the substitutions applied to f_once

pvars == <<issues, jobs, queue, taken, pc, issue, call, api_pr, response, cache,
           clock, rate_limits, faulted, source, mainpc, descriptions>>

cvars == <<layout, c_item, c_orig, c_used, c_fetch, c_pc, c_parsed, c_desc>>

fvars == <<f_entry, f_pc, f_once, f_twice>>

vars == <<pvars, cvars, fvars>>

Workers == 1..jobs

\* The pool before get_descriptions is called.
PoolOff ==
    /\ issues = <<>>
    /\ jobs = 0
    /\ queue = <<>>
    /\ taken = [n \in PRNumbers |-> 0]
    /\ pc = <<>>
    /\ issue = <<>>
    /\ call = <<>>
    /\ api_pr = <<>>
    /\ response = <<>>
    /\ cache = [n \in PRNumbers |-> NoFile]
    /\ clock = StartTime
    /\ rate_limits = 0
    /\ faulted = FALSE
    /\ source = <<>>
    /\ mainpc = "off"
    /\ descriptions = <<>>

\* The classifier when it is not called on its own.
ClassifierOff ==
    /\ layout = NextLineLayout
    /\ c_item = Remote[1]
    /\ c_orig = Remote[1]
    /\ c_used = Remote[1]
    /\ c_fetch = "none"
    /\ c_pc = "off"
    /\ c_parsed = [category |-> <<>>, entry |-> <<>>]
    /\ c_desc = <<>>

\* formatted_entry when it is not called.
FormatterOff ==
    /\ f_entry = <<>>
    /\ f_pc = "off"
    /\ f_once = <<>>
    /\ f_twice = <<>>

(***************************************************************************)
(* The classifier applied to one description                               *)
(***************************************************************************)

ClassifyInit ==
    /\ layout \in Layouts
    /\ \E t \in Titles :
         c_item = [number |-> 1000, title |-> t, body |-> Render(layout)]
    /\ c_orig = c_item
    /\ c_used = c_item
    /\ c_fetch = "none"
    /\ c_pc = "input"
    /\ c_parsed = [category |-> <<>>, entry |-> <<>>]
    /\ c_desc = <<>>
    /\ PoolOff
    /\ FormatterOff

\* generate_description(item, repo) for a pull request that is no backport
Classify ==
    /\ c_pc = "input"
    /\ c_parsed' = ParseDescription(c_item.body)
    /\ c_desc' = Describe(c_item, c_item.number)
    /\ c_pc' = "done"
    /\ UNCHANGED <<layout, c_item, c_orig, c_used, c_fetch, pvars, fvars>>

ClassifyNext == Classify

ClassifySpec == ClassifyInit /\ [][ClassifyNext]_vars

(***************************************************************************)
(* generate_description as a whole: descriptions made of any blocks, and   *)
(* the backport resolution                                                 *)
(***************************************************************************)

\* Largest number of blocks in a generated description.
MaxBlocks == 2

\* "not significant"
LineNotSignificant == <<"n","o","t"," ","s","i","g","n","i","f","i","c","a","n","t">>
\* "Not for changelog (changelog entry is not required)"
LineNotForChangelog ==
    <<"N","o","t"," ","f","o","r"," ","c","h","a","n","g","e","l","o","g"," ","(","c","h","a","n","g","e","l","o","g"," ","e","n","t","r","y"," ","i","s"," ","n","o","t"," ","r","e","q","u","i","r","e","d",")">>
\* "Performance Improvement (CI)": scores 90 against "Performance Improvement"
LinePerformanceCI ==
    <<"P","e","r","f","o","r","m","a","n","c","e"," ","I","m","p","r","o","v","e","m","e","n","t"," ","(","C","I",")">>
\* "Bug Fixes": scores 88 against "Bug Fix"
LineBugFixes == <<"B","u","g"," ","F","i","x","e","s">>
\* "Feature"
LineFeature == <<"F","e","a","t","u","r","e">>

\* The lines written under a category header and under an entry header.
CategoryValues ==
    {LineBugFix, LineImprovement, LineNotSignificant, LineNotForChangelog,
     LineDocumentation, LineFeature, LinePerformanceCI, LineBugFixes}

EntryValues == {LineFixedCrash, LineFixX}

\* A block is a header line and the line after it.
CategoryBlockOf(v) == <<CatHeaderPlain, v>>

EntryBlockOf(e) == <<EntryHeaderPlain, e>>

Blocks ==
    {CategoryBlockOf(v) : v \in CategoryValues} \cup
    {EntryBlockOf(e) : e \in EntryValues}

\* The lines of a list of blocks: a blank line stands between two blocks.
RECURSIVE BlockLines(_)
BlockLines(blocks) ==
    IF blocks = <<>> THEN <<>>
    ELSE IF Len(blocks) = 1 THEN blocks[1]
    ELSE blocks[1] \o << <<>> >> \o BlockLines(Tail(blocks))

\* The body text of a list of blocks; the empty list is the empty body.
BodyOf(blocks) == Join(BlockLines(blocks), <<"\n">>)

\* "backport/2" and "backport/23.8/2/2": backport branches that do not have
\* three parts
RefBackportTwoParts == <<"b","a","c","k","p","o","r","t","/","2">>
RefBackportFourParts ==
    <<"b","a","c","k","p","o","r","t","/","2","3",".","8","/","2","/","2">>

Refs == {RefFeature, RefBackportOf2, RefBackportTwoParts, RefBackportFourParts}

\* Descriptions of the pull request a backport was made of.
OriginalBlocks ==
    { <<>>,
      <<CategoryBlockOf(LineImprovement), EntryBlockOf(LineFixX)>>,
      <<CategoryBlockOf(LineImprovement)>>,
      <<CategoryBlockOf(LineNotSignificant), EntryBlockOf(LineFixedCrash)>>,
      <<CategoryBlockOf(LineDocumentation), EntryBlockOf(LineFixedCrash)>> }

\* "Original"
TitleOriginal == <<"O","r","i","g","i","n","a","l">>

Item(number, title, blocks, ref) ==
    [number |-> number, title |-> title, body |-> BodyOf(blocks),
     head_ref |-> ref]

\* The call generate_description(item, repo): item is pull request 1000 with
\* a description of at most MaxBlocks blocks; for a branch that names a
\* pull request, the tracker holds that pull request with its description.
DescribeInit ==
    /\ layout \in SeqsOf(Blocks, 0, MaxBlocks)
    /\ \E t \in Titles, r \in Refs : c_item = Item(1000, t, layout, r)
    /\ \E b \in OriginalBlocks :
         /\ BackportTarget(c_item.head_ref) <= 0 => b = <<>>
         /\ c_orig = Item(2, TitleOriginal, b, RefFeature)
    /\ c_used = c_item
    /\ c_fetch = "none"
    /\ c_pc = "input"
    /\ c_parsed = [category |-> <<>>, entry |-> <<>>]
    /\ c_desc = <<>>
    /\ PoolOff
    /\ FormatterOff

\* generate_description(item, repo), lines 243-335.  For a backport branch
\* of three parts get_pull_cached answers with the original pull request or
\* raises; the exception is caught and item stays what it was.
GenerateDescription ==
    /\ c_pc = "input"
    /\ \E fetched \in BOOLEAN :
         LET target == BackportTarget(c_item.head_ref)
             item == IF target > 0 /\ fetched THEN c_orig ELSE c_item
         IN  /\ target <= 0 => fetched
             /\ c_fetch' = IF target <= 0 THEN "none"
                           ELSE IF fetched THEN "ok" ELSE "raised"
             /\ c_used' = item
             /\ c_parsed' = ParseDescription(item.body)
             /\ c_desc' = Describe(item, c_item.number)
    /\ c_pc' = "done"
    /\ UNCHANGED <<layout, c_item, c_orig, pvars, fvars>>

DescribeNext == GenerateDescription

DescribeSpec == DescribeInit /\ [][DescribeNext]_vars

(***************************************************************************)
(* formatted_entry applied to an entry, and to its own result              *)
(***************************************************************************)

\* Largest number of pieces an entry text is made of.
MaxPieces == 3

\* "#1234", "#123" and an issue URL
PieceNumber == <<"#","1","2","3","4">>
PieceShortNumber == <<"#","1","2","3">>
PieceUrl == IssuesUrl \o <<"5","6","7","8">>

Pieces == {PieceNumber, PieceShortNumber, PieceUrl, <<"[">>, <<"(">>, <<" ">>}

RECURSIVE Concat(_)
Concat(texts) == IF texts = <<>> THEN <<>> ELSE Head(texts) \o Concat(Tail(texts))

\* A Description whose entry is made of at most MaxPieces pieces.
FormatInit ==
    /\ \E ps \in SeqsOf(Pieces, 0, MaxPieces) : f_entry = Concat(ps)
    /\ f_pc = "input"
    /\ f_once = <<>>
    /\ f_twice = <<>>
    /\ PoolOff
    /\ ClassifierOff

\* formatted_entry, lines 60-70
FormatEntry ==
    /\ f_pc = "input"
    /\ f_once' = LinkIssues(f_entry)
    /\ f_pc' = "once"
    /\ UNCHANGED <<f_entry, f_twice, pvars, cvars>>

\* formatted_entry, lines 60-70, for a Description whose entry is f_once
FormatAgain ==
    /\ f_pc = "once"
    /\ f_twice' = LinkIssues(f_once)
    /\ f_pc' = "twice"
    /\ UNCHANGED <<f_entry, f_once, pvars, cvars>>

FormatNext == FormatEntry \/ FormatAgain

FormatSpec == FormatInit /\ [][FormatNext]_vars

(***************************************************************************)
(* get_descriptions: the queue, the workers and the aggregation            *)
(***************************************************************************)

\* The arguments of a get_pull_cached call: the number, the updated_at it
\* compares with, and the caller ("run" for Worker.run, "backport" for
\* generate_description).
NoCall == [number |-> 0, updated_at |-> 0, from |-> "none"]

\* get_descriptions up to the start of the workers (lines 160-167): every
\* issue is in the queue and `jobs` workers stand at the head of their loop.
Init ==
    /\ issues \in IssueLists
    /\ jobs \in 1..MaxJobs
    /\ queue = issues
    /\ taken = [n \in PRNumbers |-> 0]
    /\ pc = [w \in Workers |-> "loop"]
    /\ issue = [w \in Workers |-> 0]
    /\ call = [w \in Workers |-> NoCall]
    /\ api_pr = [w \in Workers |-> 0]
    /\ response = [w \in Workers |-> <<>>]
    /\ cache \in InitialCaches
    /\ clock = StartTime
    /\ rate_limits = 0
    /\ faulted = FALSE
    /\ source = [w \in Workers |-> "none"]
    /\ mainpc = "join"
    /\ descriptions = <<>>
    /\ ClassifierOff
    /\ FormatterOff

\* Line 105: while not self.queue.empty()
CheckEmpty(w) ==
    /\ w \in Workers
    /\ pc[w] = "loop"
    /\ pc' = [pc EXCEPT ![w] = IF queue = <<>> THEN "done" ELSE "get"]
    /\ UNCHANGED <<issues, jobs, taken, queue, issue, call, api_pr, response, cache,
                   clock, rate_limits, faulted, source, mainpc, descriptions,
                   cvars, fvars>>

\* Lines 107-110 and 138-139: self.queue.get() blocks while the queue is
\* empty (no Empty is raised by a blocking get); with an issue in hand the
\* worker calls get_pull_cached(repo, issue.number, issue.updated_at).
QueueGet(w) ==
    /\ w \in Workers
    /\ pc[w] = "get"
    /\ queue # <<>>
    /\ issue' = [issue EXCEPT ![w] = Head(queue)]
    /\ queue' = Tail(queue)
    /\ taken' = [taken EXCEPT ![Head(queue)] = @ + 1]
    /\ call' = [call EXCEPT ![w] = [number |-> Head(queue),
                                   updated_at |-> Remote[Head(queue)].updated_at,
                                   from |-> "run"]]
    /\ pc' = [pc EXCEPT ![w] = "cache_check"]
    /\ UNCHANGED <<issues, jobs, api_pr, response, cache, clock, rate_limits,
                   faulted, source, mainpc, descriptions, cvars, fvars>>

\* Faulty variant of CacheIsFresh: a file as old as updated_at is used too.
CacheIsFreshOrEqual(file, updated_at) ==
    file.exists /\ file.mtime >= updated_at

\* Lines 141-143: the cache file is used when it exists and is newer than
\* updated_at.
CacheIsFresh(file, updated_at) == file.exists /\ file.mtime > updated_at

CacheCheck(w) ==
    /\ w \in Workers
    /\ pc[w] = "cache_check"
    /\ pc' = [pc EXCEPT ![w] =
                IF CacheIsFresh(cache[call[w].number], call[w].updated_at)
                THEN "cache_load" ELSE "remote"]
    /\ UNCHANGED <<issues, jobs, taken, queue, issue, call, api_pr, response, cache,
                   clock, rate_limits, faulted, source, mainpc, descriptions,
                   cvars, fvars>>

\* Faulty variant of EnterDescribe: updated_at defaults to one hour before
\* now.
EnterDescribeHourAgo(w, number) ==
    IF TargetOf[number] > 0
    THEN /\ pc' = [pc EXCEPT ![w] = "cache_check"]
         /\ call' = [call EXCEPT ![w] = [number |-> TargetOf[number],
                                         updated_at |-> clock - HOUR,
                                         from |-> "backport"]]
    ELSE /\ pc' = [pc EXCEPT ![w] = "describe"]
         /\ call' = [call EXCEPT ![w] = [number |-> number, updated_at |-> 0,
                                         from |-> "none"]]

\* Lines 245-249 of generate_description, reached from line 122: for a
\* backport branch of three parts the original pull request is fetched with
\* get_pull_cached(repo, number), whose updated_at defaults to
\* datetime.now() - timedelta(hours=-1); otherwise the pull request itself
\* is described.
EnterDescribe(w, number) ==
    IF TargetOf[number] > 0
    THEN /\ pc' = [pc EXCEPT ![w] = "cache_check"]
         /\ call' = [call EXCEPT ![w] = [number |-> TargetOf[number],
                                         updated_at |-> clock + HOUR,
                                         from |-> "backport"]]
    ELSE /\ pc' = [pc EXCEPT ![w] = "describe"]
         /\ call' = [call EXCEPT ![w] = [number |-> number, updated_at |-> 0,
                                         from |-> "none"]]

\* Faulty variant of AfterFetch: the test `merge_commit in SHA_IN_CHANGELOG` is
\* left out.
AfterFetchNoRangeTest(w, number) ==
    IF Remote[number].merge_commit_sha \notin LocalCommits
    THEN pc' = [pc EXCEPT ![w] = "loop"] /\ call' = [call EXCEPT ![w] = NoCall]
    ELSE EnterDescribe(w, number)

\* Lines 110-121, after get_pull_cached returned pull request `number` to
\* Worker.run: git rev-parse of the merge commit (`continue` when it fails),
\* the membership test, and the call of generate_description.
AfterFetch(w, number) ==
    IF Remote[number].merge_commit_sha \notin LocalCommits
    THEN pc' = [pc EXCEPT ![w] = "loop"] /\ call' = [call EXCEPT ![w] = NoCall]
    ELSE IF Remote[number].merge_commit_sha \in SHA_IN_CHANGELOG
    THEN EnterDescribe(w, number)
    ELSE pc' = [pc EXCEPT ![w] = "loop"] /\ call' = [call EXCEPT ![w] = NoCall]

\* get_pull_cached returns pull request `number` to its caller.
Return(w, number) ==
    IF call[w].from = "run"
    THEN /\ api_pr' = [api_pr EXCEPT ![w] = number]
         /\ AfterFetch(w, number)
    ELSE /\ pc' = [pc EXCEPT ![w] = "describe"]
         /\ call' = [call EXCEPT ![w].from = "none"]
         /\ UNCHANGED api_pr

\* An exception leaves get_pull_cached: Worker.run does not catch it and the
\* thread ends; generate_description catches it (line 250) and describes the
\* backport itself.
Raise(w) ==
    IF call[w].from = "run"
    THEN /\ pc' = [pc EXCEPT ![w] = "dead"]
         /\ UNCHANGED <<call, api_pr>>
    ELSE /\ pc' = [pc EXCEPT ![w] = "describe"]
         /\ call' = [call EXCEPT ![w] = [number |-> api_pr[w], updated_at |-> 0,
                                         from |-> "none"]]
         /\ UNCHANGED api_pr

\* Lines 144-145: open the cache file and load the pickle; a file that is
\* being written has no complete pickle and the load raises.
CacheLoad(w) ==
    /\ w \in Workers
    /\ pc[w] = "cache_load"
    /\ IF cache[call[w].number].content = "full"
       THEN /\ source' = [source EXCEPT ![w] = "cache"]
            /\ Return(w, call[w].number)
       ELSE /\ source' = [source EXCEPT ![w] = "error"]
            /\ Raise(w)
    /\ UNCHANGED <<issues, jobs, taken, queue, issue, response, cache, clock,
                   rate_limits, faulted, mainpc, descriptions, cvars, fvars>>

\* Lines 146-149: repo.get_pull(number) succeeds.
RemoteOk(w) ==
    /\ w \in Workers
    /\ pc[w] = "remote"
    /\ call[w].number \in PRNumbers
    /\ pc' = [pc EXCEPT ![w] = "cache_open"]
    /\ UNCHANGED <<issues, jobs, taken, queue, issue, call, api_pr, response, cache,
                   clock, rate_limits, faulted, source, mainpc, descriptions,
                   cvars, fvars>>

\* Faulty variant of RemoteRateLimit: the rate-limit error is not caught and leaves
\* get_pull_cached.
RemoteRateLimitRaises(w) ==
    /\ w \in Workers
    /\ pc[w] = "remote"
    /\ rate_limits < MaxRateLimits
    /\ rate_limits' = rate_limits + 1
    /\ source' = [source EXCEPT ![w] = "error"]
    /\ Raise(w)
    /\ UNCHANGED <<issues, jobs, taken, queue, issue, response, cache, clock,
                   faulted, mainpc, descriptions, cvars, fvars>>

\* Lines 150-151 and 129-131: RateLimitExceededException is caught, the
\* worker sleeps BACKOFF seconds and tries again.
RemoteRateLimit(w) ==
    /\ w \in Workers
    /\ pc[w] = "remote"
    /\ rate_limits < MaxRateLimits
    /\ rate_limits' = rate_limits + 1
    /\ clock' = clock + BACKOFF
    /\ UNCHANGED <<issues, jobs, taken, queue, pc, issue, call, api_pr, response,
                   cache, faulted, source, mainpc, descriptions, cvars, fvars>>

\* Line 148: repo.get_pull(number) raises another exception.
RemoteError(w) ==
    /\ w \in Workers
    /\ pc[w] = "remote"
    /\ faulted' = TRUE
    /\ source' = [source EXCEPT ![w] = "error"]
    /\ Raise(w)
    /\ UNCHANGED <<issues, jobs, taken, queue, issue, response, cache, clock,
                   rate_limits, mainpc, descriptions, cvars, fvars>>

\* Line 152: open(pr_cache_file, "wb") creates or truncates the file.
CacheOpen(w) ==
    /\ w \in Workers
    /\ pc[w] = "cache_open"
    /\ cache' = [cache EXCEPT ![call[w].number] = File(clock, "partial")]
    /\ pc' = [pc EXCEPT ![w] = "cache_dump"]
    /\ UNCHANGED <<issues, jobs, taken, queue, issue, call, api_pr, response, clock,
                   rate_limits, faulted, source, mainpc, descriptions, cvars, fvars>>

\* Lines 153-154: the pickle is written, the file closed, pr returned.
CacheDump(w) ==
    /\ w \in Workers
    /\ pc[w] = "cache_dump"
    /\ cache' = [cache EXCEPT ![call[w].number] = File(clock, "full")]
    /\ source' = [source EXCEPT ![w] = "remote"]
    /\ Return(w, call[w].number)
    /\ UNCHANGED <<issues, jobs, taken, queue, issue, response, clock, rate_limits,
                   faulted, mainpc, descriptions, cvars, fvars>>

\* An element of a response list: the Description, with the number of the
\* issue it was made for (backport_number) kept as a history field.
Entry(desc, backport_number) ==
    [number |-> desc.number, entry |-> desc.entry,
     category |-> desc.category, issue |-> backport_number]

\* Lines 258-335 and 123-126: the pull request call[w].number is described
\* for the issue api_pr[w], a Description is appended to the response of the
\* worker, and the worker goes back to the head of its loop.
DescribeStep(w) ==
    /\ w \in Workers
    /\ pc[w] = "describe"
    /\ LET desc == Described[call[w].number, api_pr[w]]
       IN  response' = [response EXCEPT ![w] =
                IF desc = <<>> THEN @ ELSE Append(@, Entry(desc[1], api_pr[w]))]
    /\ pc' = [pc EXCEPT ![w] = "loop"]
    /\ call' = [call EXCEPT ![w] = NoCall]
    /\ UNCHANGED <<issues, jobs, taken, queue, issue, api_pr, cache, clock,
                   rate_limits, faulted, source, mainpc, descriptions, cvars, fvars>>

\* Faulty variant of SortDescs: the list is left as the workers filled it.
Unsorted(descs) == descs

\* descs.sort() with Description.__lt__: a stable sort by number.
RECURSIVE InsertSorted(_, _)
InsertSorted(sorted, d) ==
    IF sorted = <<>> THEN <<d>>
    ELSE IF d.number < sorted[Len(sorted)].number
         THEN Append(InsertSorted(SubSeq(sorted, 1, Len(sorted) - 1), d),
                     sorted[Len(sorted)])
         ELSE Append(sorted, d)

RECURSIVE SortDescs(_)
SortDescs(descs) ==
    IF descs = <<>> THEN <<>>
    ELSE InsertSorted(SortDescs(SubSeq(descs, 1, Len(descs) - 1)),
                      descs[Len(descs)])

\* The responses of workers 1..k, one after the other.
RECURSIVE Responses(_, _)
Responses(resp, k) ==
    IF k = 0 THEN <<>> ELSE Responses(resp, k - 1) \o resp[k]

\* Faulty variant of Aggregate: of several entries with the same number in a
\* category only the first is kept.
AggregateUnique(all) ==
    [c \in {all[k].category : k \in 1..Len(all)} |->
        SortDescs(SelectSeq(all, LAMBDA d :
            /\ d.category = c
            /\ d = all[CHOOSE k \in 1..Len(all) :
                        /\ all[k].category = c
                        /\ all[k].number = d.number
                        /\ \A j \in 1..(k - 1) :
                             ~(all[j].category = c /\ all[j].number = d.number)]))]

\* Lines 169-178: the Descriptions grouped by category, each list sorted.
Aggregate(all) ==
    [c \in {all[k].category : k \in 1..Len(all)} |->
        SortDescs(SelectSeq(all, LAMBDA d : d.category = c))]

\* A thread has ended when run returned or an exception left it.
Finished(w) == pc[w] \in {"done", "dead"}

\* Lines 169-180: every worker is joined, the responses are gathered in
\* worker order and sorted, and the dictionary is returned.
JoinAndAggregate ==
    /\ mainpc = "join"
    /\ \A w \in Workers : Finished(w)
    /\ descriptions' = Aggregate(Responses(response, jobs))
    /\ mainpc' = "returned"
    /\ UNCHANGED <<issues, jobs, taken, queue, pc, issue, call, api_pr, response,
                   cache, clock, rate_limits, faulted, source, cvars, fvars>>

Next ==
    \/ \E w \in 1..MaxJobs : CheckEmpty(w)
    \/ \E w \in 1..MaxJobs : QueueGet(w)
    \/ \E w \in 1..MaxJobs : CacheCheck(w)
    \/ \E w \in 1..MaxJobs : CacheLoad(w)
    \/ \E w \in 1..MaxJobs : RemoteOk(w)
    \/ \E w \in 1..MaxJobs : RemoteRateLimit(w)
    \/ \E w \in 1..MaxJobs : RemoteError(w)
    \/ \E w \in 1..MaxJobs : CacheOpen(w)
    \/ \E w \in 1..MaxJobs : CacheDump(w)
    \/ \E w \in 1..MaxJobs : DescribeStep(w)
    \/ JoinAndAggregate

Spec == Init /\ [][Next]_vars

\* The threads are scheduled fairly: a worker that can take a step takes
\* one, and so does the joining thread.  Failing and rate-limited fetches
\* are left to the tracker.
Fairness ==
    /\ \A w \in 1..MaxJobs :
         WF_vars(CheckEmpty(w) \/ QueueGet(w) \/ CacheCheck(w) \/ CacheLoad(w)
                 \/ RemoteOk(w) \/ CacheOpen(w) \/ CacheDump(w)
                 \/ DescribeStep(w))
    /\ WF_vars(JoinAndAggregate)

FairSpec == Spec /\ Fairness

(***************************************************************************)
(* get_descriptions from line 169 on: the aggregation of any responses     *)
(***************************************************************************)

\* Largest number of Descriptions in the response list of one worker.
MaxResponses == 2

\* Descriptions the workers may have produced: pull requests 100 and 500
\* under "Bug Fix", pull request 300 under "Improvement".
Produced ==
    {Entry(Description(n, Append(LineFixedCrash, "."), LineBugFix), n) :
        n \in {100, 500}} \cup
    {Entry(Description(300, Append(LineFixedCrash, "."),
                       categories_preferred_order[4]), 300)}

\* All workers have ended, each with any response list.
AggregateInit ==
    /\ jobs \in 1..MaxJobs
    /\ response \in [Workers -> SeqsOf(Produced, 0, MaxResponses)]
    /\ issues = [k \in 1..Len(Responses(response, jobs)) |->
                    Responses(response, jobs)[k].issue]
    /\ queue = <<>>
    /\ taken = [n \in PRNumbers |-> 0]
    /\ pc = [w \in Workers |-> "done"]
    /\ issue = [w \in Workers |-> 0]
    /\ call = [w \in Workers |-> NoCall]
    /\ api_pr = [w \in Workers |-> 0]
    /\ cache = [n \in PRNumbers |-> NoFile]
    /\ clock = StartTime
    /\ rate_limits = 0
    /\ faulted = FALSE
    /\ source = [w \in Workers |-> "remote"]
    /\ mainpc = "join"
    /\ descriptions = <<>>
    /\ ClassifierOff
    /\ FormatterOff

AggregateNext == JoinAndAggregate

AggregateSpec == AggregateInit /\ [][AggregateNext]_vars

(***************************************************************************)
(* Claims about the pool, the cache and the aggregation                    *)
(***************************************************************************)

\* The numbers of the issues given to get_descriptions.
IssueSet == {issues[k] : k \in 1..Len(issues)}

\* The entries of all response lists, and those of the returned dictionary.
AllEntries == Responses(response, jobs)

ResultEntries ==
    UNION {{descriptions[c][k] : k \in 1..Len(descriptions[c])} :
           c \in DOMAIN descriptions}

\* How often x occurs in the sequence s.
Count(s, x) == Cardinality({k \in 1..Len(s) : s[k] = x})

\* The issues whose processing raised in their worker.
Raised == {issue[w] : w \in {v \in Workers : pc[v] = "dead"}}

\* The merge commit of the issue resolves and lies in the commit set, and
\* the classifier returns a Description for it.
ShouldContribute(i) ==
    /\ Remote[i].merge_commit_sha \in LocalCommits
    /\ Remote[i].merge_commit_sha \in SHA_IN_CHANGELOG
    /\ \E n \in {i} \cup ({TargetOf[i]} \cap PRNumbers) : Described[n, i] # <<>>

\* C1: under fair scheduling, in a run where no fetch fails for good (rate
\* limits end, nothing else is raised), every worker leaves its loop and
\* get_descriptions returns from the joins.
C1_PoolRunsToCompletion ==
    <>(faulted \/ (mainpc = "returned" /\ \A w \in Workers : pc[w] = "done"))

\* C2: when the processing of one issue raises in its worker, every other
\* issue whose merge commit resolves and lies in the commit set still has
\* its entry in the returned dictionary.
C2_FailureRemovesOnlyItsEntry ==
    (mainpc = "returned" /\ Cardinality(Raised) = 1)
        => \A i \in IssueSet \ Raised :
             ShouldContribute(i) => \E e \in ResultEntries : e.issue = i

\* C3: once all workers have finished, no issue is left in the queue, every
\* queued issue was taken exactly once and has at most one entry in the
\* response lists.
C3_EachIssueTakenOnce ==
    (\A w \in Workers : Finished(w))
        => /\ queue = <<>>
           /\ \A i \in IssueSet :
                /\ taken[i] = 1
                /\ Cardinality({k \in 1..Len(AllEntries) :
                                    AllEntries[k].issue = i}) <= 1

\* The worker is inside the loop body, between taking an issue and the end
\* of its iteration.
InProgress(w) ==
    pc[w] \in {"cache_check", "cache_load", "remote", "cache_open",
               "cache_dump", "describe"}

\* The iteration of issue i has ended without an exception.
Completed(i) ==
    /\ taken[i] > 0
    /\ \A w \in Workers : issue[w] = i => pc[w] \in {"loop", "get", "done"}

C4_EntryIff ==
    \A i \in IssueSet :
        Completed(i) =>
            ((\E k \in 1..Len(AllEntries) : AllEntries[k].issue = i)
                <=> ShouldContribute(i))

\* get_pull_cached returns to Worker.run a pull request whose merge commit
\* does not resolve: the worker appends nothing and is back at the head of
\* its loop.
C4_SkipStep ==
    \A w \in 1..MaxJobs :
        ( /\ w \in Workers
          /\ pc[w] \in {"cache_load", "cache_dump"}
          /\ call[w].from = "run"
          /\ pc'[w] \notin {pc[w], "dead"}
          /\ Remote[call[w].number].merge_commit_sha \notin LocalCommits )
        => (pc'[w] = "loop" /\ response' = response)

\* C4: an issue whose iteration has ended has an entry if and only if its
\* merge commit resolves, lies in the commit set and the classifier returns
\* a Description; an issue whose merge commit does not resolve is skipped
\* and its worker goes back to the head of the loop.
C4_EntryIffResolvedInRangeClassified == [](C4_EntryIff) /\ [][C4_SkipStep]_vars

C4_Witness ==
    /\ jobs = 1
    /\ issues = <<1, 2>>
    /\ pc[1] = "done"
    /\ Len(response[1]) = 1
    /\ response[1][1].issue = 2

\* The step of get_pull_cached that decides between the cache file and the
\* tracker: with test(file, updated_at) true it goes on to load the file,
\* otherwise to repo.get_pull.
C5_CacheStep(w, cached) ==
    (w \in Workers /\ pc[w] = "cache_check" /\ pc'[w] # "cache_check")
        => (pc'[w] = IF cached THEN "cache_load" ELSE "remote")

\* The cache file answers without a call of the tracker: the step that
\* loads it ends the call, with the cached pull request or with the error of
\* the load.
C5_LoadStep(w) ==
    (w \in Workers /\ pc[w] = "cache_load" /\ pc'[w] # "cache_load")
        => /\ source'[w] \in {"cache", "error"}
           /\ pc'[w] \notin {"remote", "cache_open", "cache_dump"}
           /\ cache' = cache

\* C5 as stated: the cached pull request is used exactly when the cache file
\* exists and its write time is >= updated_at, equal times included.
C5_CachedWhenNotOlder ==
    [][\A w \in 1..MaxJobs :
         /\ C5_CacheStep(w, /\ cache[call[w].number].exists
                            /\ cache[call[w].number].mtime >= call[w].updated_at)
         /\ C5_LoadStep(w)]_vars

\* C5 amended: the cache file is read, and no call of the tracker made,
\* exactly when the file exists and its write time is strictly greater than
\* updated_at; with equal times the file is stale and the pull request is
\* fetched from the tracker.
C5_CachedWhenNewer ==
    [][\A w \in 1..MaxJobs :
         /\ C5_CacheStep(w, /\ cache[call[w].number].exists
                            /\ cache[call[w].number].mtime > call[w].updated_at)
         /\ C5_LoadStep(w)]_vars

C5_Witness ==
    \E w \in Workers :
        /\ source[w] = "cache"
        /\ api_pr[w] = 2
        /\ issue[w] = 2
        /\ cache[2].mtime = UpdatedAt + 1

\* A rate-limit error moves no worker (none leaves get_pull_cached, none
\* dies) and the clock advances by the backoff.
C6_RateLimitStep ==
    rate_limits' # rate_limits => (pc' = pc /\ clock' = clock + BACKOFF)

\* After a successful repo.get_pull the worker writes the cache file of the
\* number and then returns the pull request: nothing is raised, and at the
\* return the file holds the complete pickle.
C6_WriteStep ==
    \A w \in 1..MaxJobs :
        /\ (w \in Workers /\ pc[w] = "remote" /\ pc'[w] # "remote"
              /\ source'[w] # "error")
             => pc'[w] = "cache_open"
        /\ (w \in Workers /\ pc[w] = "cache_open" /\ pc'[w] # "cache_open")
             => pc'[w] = "cache_dump"
        /\ (w \in Workers /\ pc[w] = "cache_dump" /\ pc'[w] # "cache_dump")
             => /\ pc'[w] # "dead"
                /\ cache'[call[w].number].exists
                /\ cache'[call[w].number].content = "full"
                /\ source'[w] = "remote"
                /\ call[w].from = "run" => api_pr'[w] = call[w].number
                /\ call[w].from = "backport" => call'[w].number = call[w].number

RECURSIVE SequentialEntries(_)
SequentialEntries(k) ==
    IF k = 0 THEN <<>>
    ELSE LET i == issues[k]
             n == IF TargetOf[i] > 0 THEN TargetOf[i] ELSE i
             sha == Remote[i].merge_commit_sha
         IN  SequentialEntries(k - 1) \o
             (IF sha \in LocalCommits /\ sha \in SHA_IN_CHANGELOG
                 /\ Described[n, i] # <<>>
              THEN <<Entry(Described[n, i][1], i)>>
              ELSE <<>>)

\* C8: the returned dictionary is the same for every interleaving and every
\* number of workers, here for the runs in which no fetch fails and no
\* worker dies: it is the dictionary of the run of one worker.
C8_Deterministic ==
    (mainpc = "returned" /\ ~faulted /\ \A w \in Workers : pc[w] = "done")
        => descriptions = Aggregate(SequentialEntries(Len(issues)))

\* C19: a worker that loads the cache file of a number never finds a file
\* that another worker has opened for writing and not yet written.
C19_NoReadOfFileBeingWritten ==
    [][\A w \in 1..MaxJobs :
         (w \in Workers /\ pc[w] = "cache_load" /\ pc'[w] # "cache_load")
            => cache[call[w].number].content = "full"]_vars

\* C20: a get_pull_cached call without updated_at (from the backport
\* resolution) never loads the cache file: it goes on to repo.get_pull, and
\* when that has answered the file of the number is written anew before the
\* pull request is returned.
C20_BackportFetchIgnoresCache ==
    [][\A w \in 1..MaxJobs :
         (w \in Workers /\ call[w].from = "backport") =>
            /\ (pc[w] = "cache_check" /\ pc'[w] # "cache_check")
                  => pc'[w] = "remote"
            /\ pc'[w] # "cache_load"
            /\ (pc[w] = "cache_dump" /\ pc'[w] # "cache_dump")
                  => /\ source'[w] = "remote"
                     /\ cache'[call[w].number] = File(clock, "full")]_vars

C20_Witness ==
    \E w \in Workers :
        /\ call[w].from = "backport"
        /\ call[w].number = 2
        /\ pc[w] = "cache_open"
        /\ cache[2].exists
        /\ cache[2].content = "full"
        /\ cache[2].mtime > UpdatedAt
        /\ cache[2].mtime <= clock

(***************************************************************************)
(* Claims about the classifier                                             *)
(***************************************************************************)

\* Description with category "Bug Fix" and entry "Fixed a crash."
BugFixCrash(number) ==
    Description(number, Append(LineFixedCrash, "."), LineBugFix)

\* C9 as stated: for the body with the values on the header lines, the
\* classifier returns category "Bug Fix" and entry "Fixed a crash.".
C9_InlineValuesAreRead ==
    (c_pc = "done" /\ layout = InlineLayout)
        => c_desc = <<BugFixCrash(c_item.number)>>

\* C9 amended: the classifier returns category "Bug Fix" and entry
\* "Fixed a crash." when the values stand on the lines after the headers;
\* text on a header line is not read, so for the body with the values on the
\* header lines the line after the blank line (the entry header) is taken
\* as the category, no entry is found, and the result is category
\* "NO CL ENTRY" with entry "NO CL ENTRY:  '<title>'.".
C9_ValuesFollowHeaders ==
    c_pc = "done" =>
        /\ layout = NextLineLayout => c_desc = <<BugFixCrash(c_item.number)>>
        /\ layout = InlineLayout =>
             /\ c_parsed = [category |-> EntryHeaderInline, entry |-> <<>>]
             /\ c_desc = <<Description(c_item.number,
                              NoClEntryPrefix \o c_item.title \o <<"'", ".">>,
                              NoClEntry)>>

C9_Witness ==
    /\ c_pc = "done"
    /\ layout = NextLineLayout
    /\ c_desc = <<BugFixCrash(c_item.number)>>

\* Bodies of C10: both blocks have their lines (one category line, one or
\* more entry lines).
IsBlockBody(l) == Len(l.clines) = 1 /\ Len(l.elines) >= 1

\* C10 as stated: a body of a category block and an entry block yields the
\* same (category, entry) pair as the body with the two blocks in the other
\* order, adjacent blocks included.
C10_OrderStable ==
    (c_pc = "done" /\ IsBlockBody(layout))
        => c_parsed = ParseDescription(Render(Swapped(layout)))

\* C10 amended: the two orders yield the same (category, entry) pair when a
\* blank line separates the two blocks.
C10_OrderStableSeparated ==
    (c_pc = "done" /\ IsBlockBody(layout) /\ layout.sep)
        => c_parsed = ParseDescription(Render(Swapped(layout)))

C10_Witness ==
    /\ c_pc = "done"
    /\ IsBlockBody(layout)
    /\ layout.sep
    /\ layout.first = "entry"
    /\ c_parsed.category = LineBugFix
    /\ c_parsed.entry # <<>>

(***************************************************************************)
(* Claims about generate_description as a whole                            *)
(***************************************************************************)

\* The values of the blocks of a description that stand under the header
\* hdr, in the order of the blocks.
ValuesUnder(blocks, hdr) ==
    LET Under(b) == b[1] = hdr
        sel == SelectSeq(blocks, Under)
    IN  [k \in 1..Len(sel) |-> sel[k][2]]

\* A line as the scan sees it, and as a category.
AsLine(v) == CollapseSpaces(Strip(v))

AsCategory(v) == StripListMarker(AsLine(v))

\* The pair the scan extracts when, of the values under each header, the
\* first one (first = TRUE) or the last one is honored.
Honored(blocks, first) ==
    LET cs == ValuesUnder(blocks, CatHeaderPlain)
        es == ValuesUnder(blocks, EntryHeaderPlain)
    IN  [category |-> IF cs = <<>> THEN <<>>
                      ELSE AsCategory(cs[IF first THEN 1 ELSE Len(cs)]),
         entry    |-> IF es = <<>> THEN <<>>
                      ELSE AsLine(es[IF first THEN 1 ELSE Len(es)])]

Canonical ==
    {categories_preferred_order[k] : k \in 1..Len(categories_preferred_order)}

Sentinels == {NotForChangelog, NoClCategory, NoClEntry}

\* The canonical categories that score 90 or more against s.
Similar(s) == {c \in Canonical : ratio(Lower(s), Lower(c)) >= 90}

\* C12 as stated: the category of every returned Description is a canonical
\* category or a sentinel.
C12_CategoryCanonicalOrSentinel ==
    (c_pc = "done" /\ c_desc # <<>>)
        => c_desc[1].category \in Canonical \cup Sentinels

\* C12 amended: the category of every returned Description is a canonical
\* category, a sentinel, or the extracted category itself, returned as
\* written when no canonical category scores 90 or more against it.
C12_CategoryCanonicalSentinelOrRaw ==
    (c_pc = "done" /\ c_desc # <<>>)
        => \/ c_desc[1].category \in Canonical \cup Sentinels
           \/ /\ c_desc[1].category = c_parsed.category
              /\ Similar(c_parsed.category) = {}

C12_Witness ==
    /\ c_pc = "done"
    /\ c_desc # <<>>
    /\ c_parsed.category = LineFeature
    /\ c_desc[1].category = LineFeature
    /\ c_desc[1].category \notin Canonical \cup Sentinels

\* The category after line 301: the extracted one, or "NO CL CATEGORY".
CategoryOrSentinel ==
    IF c_parsed.category = <<>> THEN NoClCategory ELSE c_parsed.category

\* "NO CL ENTRY: '<title>'." with single spaces
MissingEntryText(title) ==
    <<"N","O"," ","C","L"," ","E","N","T","R","Y",":"," ","'">>
        \o title \o <<"'", ".">>

\* C13: a pull request whose description yields no entry text, and whose
\* category is neither not-for-changelog nor documentation, is returned
\* under "NO CL ENTRY" with the entry "NO CL ENTRY: '<title>'.", be it
\* classified directly or as the original of a backport (runs of spaces in
\* the entry count as one space).
C13_MissingEntrySurfaced ==
    ( /\ c_pc = "done"
      /\ c_parsed.entry = <<>>
      /\ ~IsNotForChangelog(CategoryOrSentinel)
      /\ ~IsDocumentation(CategoryOrSentinel) )
    => /\ c_desc # <<>>
       /\ c_desc[1].category = NoClEntry
       /\ CollapseSpaces(c_desc[1].entry) = MissingEntryText(c_used.title)

\* The branch has the form backport/<base>/<number>: it starts with
\* "backport/" and has exactly three parts between slashes.
ThreeParts(ref) ==
    /\ IsBackportRef(ref)
    /\ Cardinality({k \in 1..Len(ref) : ref[k] = "/"}) = 2

\* text with a closing period, unless it has one.
Closed(text) == IF text[Len(text)] = "." THEN text ELSE Append(text, ".")

\* "Backported in #<number>: "
BackportedInText(number) == BackportedIn \o IntToStr(number) \o <<":", " ">>

StartsWith(text, prefix) ==
    Len(text) >= Len(prefix) /\ SubSeq(text, 1, Len(prefix)) = prefix

\* An ordinary classification: an entry was extracted and the category is
\* neither not-for-changelog nor documentation.
Ordinary ==
    /\ c_parsed.entry # <<>>
    /\ ~IsNotForChangelog(CategoryOrSentinel)
    /\ ~IsDocumentation(CategoryOrSentinel)

C15_NotForChangelogReturnsTitle ==
    ( /\ c_pc = "done"
      /\ c_parsed.category \in {LineNotSignificant, LineNotForChangelog} )
    => c_desc = <<Description(c_used.number, c_used.title, NotForChangelog)>>

C15_Witness ==
    /\ c_pc = "done"
    /\ c_fetch = "ok"
    /\ c_parsed.category = LineNotSignificant
    /\ c_parsed.entry = LineFixedCrash
    /\ c_desc = <<Description(2, TitleOriginal, NotForChangelog)>>

\* The pull request reaches line 330: its category is neither
\* not-for-changelog nor documentation.
ReachesNormalization ==
    /\ ~IsNotForChangelog(CategoryOrSentinel)
    /\ ~IsDocumentation(CategoryOrSentinel)

\* The category at line 330: "NO CL ENTRY" when line 323 has set it, the
\* extracted category or "NO CL CATEGORY" otherwise.
PreNormalized ==
    IF c_parsed.entry = <<>> /\ c_fetch # "ok" THEN NoClEntry
    ELSE CategoryOrSentinel

\* The first category of the preferred order that is in the set S.
FirstOf(S) ==
    LET ks == {k \in 1..Len(categories_preferred_order) :
                  categories_preferred_order[k] \in S}
    IN  categories_preferred_order[CHOOSE k \in ks : \A j \in ks : k <= j]

\* C16: the returned category is the first canonical category, in the
\* preferred order, that scores 90 or more against the category before
\* normalization, and that category unchanged when none does.
C16_NormalizedToFirstSimilar ==
    (c_pc = "done" /\ ReachesNormalization)
        => /\ c_desc # <<>>
           /\ c_desc[1].category =
                 IF Similar(PreNormalized) = {} THEN PreNormalized
                 ELSE FirstOf(Similar(PreNormalized))

C16_Witness ==
    /\ c_pc = "done"
    /\ c_parsed.category = LinePerformanceCI
    /\ ratio(Lower(LinePerformanceCI),
             Lower(categories_preferred_order[3])) = 90
    /\ c_desc # <<>>
    /\ c_desc[1].category = categories_preferred_order[3]

(***************************************************************************)
(* Claims about the aggregation of any responses                           *)
(***************************************************************************)

\* C17: in every list of the returned dictionary the numbers ascend,
\* whatever the workers produced and in whatever order; every Description
\* of the responses is in the list of its category.
C17_BucketsAscending ==
    mainpc = "returned" =>
        /\ \A c \in DOMAIN descriptions :
             \A j, k \in 1..Len(descriptions[c]) :
                j < k => descriptions[c][j].number <= descriptions[c][k].number
        /\ \A w \in Workers : \A k \in 1..Len(response[w]) :
             /\ response[w][k].category \in DOMAIN descriptions
             /\ Count(descriptions[response[w][k].category], response[w][k]) > 0

C17_Witness ==
    /\ mainpc = "returned"
    /\ jobs = 2
    /\ Len(response[1]) = 1 /\ response[1][1].number = 500
    /\ Len(response[2]) = 1 /\ response[2][1].number = 100
    /\ Len(descriptions[LineBugFix]) = 2
    /\ descriptions[LineBugFix][1].number = 100
    /\ descriptions[LineBugFix][2].number = 500

(***************************************************************************)
(* Claims about formatted_entry                                            *)
(***************************************************************************)

\* C18: the substitution of issue links applied to its own result gives
\* that result again.
C18_LinkSubstitutionIdempotent == f_pc = "twice" => f_twice = f_once

====
